---- MODULE Spec2Model ----
(***************************************************************************)
(* Model of H5_Nested_Store (zarr_stores/h5_nested_store.py): a zarr store *)
(* that keeps metadata as raw files and shards chunks into HDF5 containers.*)
(*                                                                         *)
(* A file or directory name is a sequence of one-character strings, a path *)
(* is a sequence of names (the absolute path split on os.sep), and the     *)
(* file system is a function from the paths that exist to their nodes.     *)
(***************************************************************************)
EXTENDS Integers, Sequences, FiniteSets, TLC

(* ------------------------------ bounds --------------------------------- *)
\* number of distinct byte payloads
MaxVal == 2
\* number of operations of one behaviour that change the store or its files
MaxOps == 2
\* largest consolidate_depth the codec specification draws
MaxDepth == 4

\* number of workers (threads or processes) that call the store
MaxWorkers == 2

Values == 1..MaxVal
\* "no bytes": the result slot of an operation that returned none
Nil == 0
\* the bytes of a container file read as a plain file
H5Bytes == -1

(* ------------------------------ names ---------------------------------- *)
nA == <<"a">>
nC == <<"c">>
n0 == <<"0">>
n1 == <<"1">>
n2 == <<"2">>
n4 == <<"4">>
n5 == <<"5">>
n6 == <<"6">>
n7 == <<"7">>
n9 == <<"9">>
nArr == <<"a", "r", "r">>
nArray == <<"a", "r", "r", "a", "y">>
n1p2 == <<"1", ".", "2">>
nZarray == <<".", "z", "a", "r", "r", "a", "y">>

\* self.path = os.path.normpath(os.path.abspath(path)): the store lives at /d/s
StorePath == << <<"d">>, <<"s">> >>
\* self.container_ext for the default container_ext='h5'
container_ext == <<".", "h", "5">>

(* --------------------------- os.path helpers --------------------------- *)
\* os.path.split: (head, tail); at the file system root the tail is ''
Split(p) ==
  IF p = <<>> THEN << <<>>, <<>> >>
  ELSE << SubSeq(p, 1, Len(p) - 1), p[Len(p)] >>

\* f'{path}{ext}': the extension is appended to the path string
AppendExt(p, ext) ==
  IF p = <<>> THEN << ext >>
  ELSE [p EXCEPT ![Len(p)] = @ \o ext]

\* os.path.splitext: split at the last dot that has a non-dot before it
SplitExt(name) ==
  LET dots == {i \in 1..Len(name) :
                 /\ name[i] = "."
                 /\ \E j \in 1..(i - 1) : name[j] # "."}
  IN IF dots = {} THEN << name, <<>> >>
     ELSE LET i == CHOOSE d \in dots : \A e \in dots : e <= d
          IN << SubSeq(name, 1, i - 1), SubSeq(name, i, Len(name)) >>

RECURSIVE SplitOnDot(_)
\* x.replace('.', os.path.sep), read back as path segments
SplitOnDot(name) ==
  IF \A i \in 1..Len(name) : name[i] # "." THEN << name >>
  ELSE LET i == CHOOSE d \in 1..Len(name) :
                  /\ name[d] = "."
                  /\ \A e \in 1..(d - 1) : name[e] # "."
       IN << SubSeq(name, 1, i - 1) >> \o SplitOnDot(SubSeq(name, i + 1, Len(name)))

\* '.' in key
HasDot(key) == \E i \in 1..Len(key) : \E j \in 1..Len(key[i]) : key[i][j] = "."

(* ------------------------------ the codec ------------------------------ *)
RECURSIVE ArchiveLoop(_, _, _)
\* for _ in range(self._consolidate_depth - 2): split, key = f'.{last}{key}'
ArchiveLoop(n, path, key) ==
  IF n <= 0 THEN << path, key >>
  ELSE LET s == Split(path)
       IN ArchiveLoop(n - 1, s[1], <<".">> \o s[2] \o key)

\* as _get_archive_key_name, with one more turn of the loop: the last
\* consolidate_depth segments are folded into the entry name
get_archive_key_name_fold_all(path, depth) ==
  LET l == ArchiveLoop(depth - 1, path, <<>>)
      s == Split(l[1])
  IN << AppendExt(s[1], container_ext), s[2] \o l[2] >>

\* as _get_archive_key_name, with the container named after the directory
\* above the first folded segment's directory
get_archive_key_name_parent(path, depth) ==
  LET l == ArchiveLoop(depth - 2, path, <<>>)
      s == Split(l[1])
  IN << AppendExt(Split(s[1])[1], container_ext), s[2] \o l[2] >>

\* _get_archive_key_name: << archive path, entry name >>
_get_archive_key_name(path, depth) ==
  LET l == ArchiveLoop(depth - 2, path, <<>>)
      s == Split(l[1])
  IN << AppendExt(s[1], container_ext), s[2] \o l[2] >>

(* --------------------------- the file system --------------------------- *)
DirNode == [kind |-> "dir"]
RawNode(v) == [kind |-> "raw", data |-> v]
H5Node(e) == [kind |-> "h5", ents |-> e]

Exists(f, p) == p = <<>> \/ p \in DOMAIN f
IsDir(f, p) == p = <<>> \/ (p \in DOMAIN f /\ f[p].kind = "dir")
IsFile(f, p) == p \in DOMAIN f /\ f[p].kind # "dir"
IsH5(f, p) == p \in DOMAIN f /\ f[p].kind = "h5"

Prefixes(p) == {SubSeq(p, 1, i) : i \in 1..Len(p)}
IsPrefix(p, q) == Len(p) <= Len(q) /\ SubSeq(q, 1, Len(p)) = p

\* os.makedirs succeeds iff no component of the path is a file
MakeDirsOK(f, p) == \A q \in Prefixes(p) : q \notin DOMAIN f \/ f[q].kind = "dir"
MakeDirs(f, p) ==
  [q \in (DOMAIN f \cup Prefixes(p)) |-> IF q \in DOMAIN f THEN f[q] ELSE DirNode]

\* shutil.rmtree / os.remove
RmTree(f, p) == [q \in {r \in DOMAIN f : ~IsPrefix(p, r)} |-> f[q]]
Remove(f, p) == [q \in (DOMAIN f \ {p}) |-> f[q]]
PutNode(f, p, node) == [q \in (DOMAIN f \cup {p}) |-> IF q = p THEN node ELSE f[q]]

\* the entries of a container, and one entry replaced / removed
PutEnt(e, name, v) == [n \in (DOMAIN e \cup {name}) |-> IF n = name THEN v ELSE e[n]]
DelEnt(e, name) == [n \in (DOMAIN e \ {name}) |-> e[n]]
HasEnt(f, archive, name) == IsH5(f, archive) /\ name \in DOMAIN f[archive].ents

(* ------------------------------- state --------------------------------- *)
VARIABLES
  fs,      \* the file system: path -> node, for the paths that exist
  cfg,     \* the store object's fields: _write_direct, _consolidate_depth
  last,    \* the last operation called, its inputs and its outcome
  live,    \* the keys set (the call returned) and not deleted since
  nops,    \* number of set, delete and open calls so far
  codec,   \* inputs and results of the last codec application
  wk       \* per worker: the call in progress and its position in the code

vars == << fs, cfg, last, live, nops, codec, wk >>

\* the keys the operations are called with
K_chunk == << nA, n0, n0, n2 >>
K_meta == << nA, nZarray >>
K_shallow == << nA, n1, n2 >>
K_top == << nC >>
K_dotted == << nA, n0, n0, n1p2 >>
Keys == {K_chunk, K_meta, K_shallow, K_top, K_dotted}

\* the consolidate_depth values a store is constructed with (default 3)
Depths == {2, 3}

NoYield == {}
NoOp == [op |-> "init", key |-> <<>>, val |-> Nil, out |-> "ok", res |-> Nil,
         found |-> FALSE, yield |-> NoYield, hadraw |-> FALSE, hadent |-> FALSE,
         hadarchive |-> FALSE, coords |-> -1, fail |-> FALSE]
NoCodec == [path |-> <<>>, path2 |-> <<>>, depth |-> 0,
            r |-> << <<>>, <<>> >>, r2 |-> << <<>>, <<>> >>, done |-> FALSE]

\* a worker that is in no call
NoCall == [pc |-> "idle", op |-> "none", key |-> <<>>, val |-> Nil, out |-> "ok",
           res |-> Nil, times |-> 0, lock |-> <<>>, inside |-> <<>>,
           imode |-> "", tmp |-> <<>>, wrote |-> <<>>, called |-> {},
           todo |-> {}, failed |-> {}]
Workers == 1..MaxWorkers
NoWorkers == [w \in Workers |-> NoCall]

\* The reads (__getitem__, __contains__, keys) assign nothing of the store or
\* the disk, so a read made after another read returns what it returns when
\* made directly after the last write; reads are explored from the states the
\* constructor and the writes leave, which reaches the same states.
MutatingOps == {"init", "open", "set", "delete", "consolidate", "rmdir", "setstate"}

\* os.path.join(self.path, key)
FilePath(key) == StorePath \o key
ArchiveOf(key, depth) == _get_archive_key_name(FilePath(key), depth)[1]
EntryOf(key, depth) == _get_archive_key_name(FilePath(key), depth)[2]
HasRaw(f, key) == IsFile(f, FilePath(key))
HasShardEntry(f, key, depth) == HasEnt(f, ArchiveOf(key, depth), EntryOf(key, depth))

\* a metadata key: some segment starts with '.'
IsMetaKey(key) == \E i \in 1..Len(key) : Len(key[i]) > 0 /\ key[i][1] = "."

\* number of segments of the key below its array root (the nearest directory
\* above it that holds .zarray), -1 when the key is under no array root
CoordsBelowRoot(f, key) ==
  LET roots == {n \in 0..(Len(key) - 1) :
                  IsFile(f, StorePath \o SubSeq(key, 1, n) \o << nZarray >>)}
  IN IF roots = {} THEN -1
     ELSE Len(key) - (CHOOSE n \in roots : \A m \in roots : m <= n)

(* ----------------------------- __setitem__ ----------------------------- *)
\* as _toh5, without the replacement of an entry that exists
toh5_keep_existing(f, archive, key, value, io_fail) ==
  IF io_fail \/ IsDir(f, archive) \/ (IsFile(f, archive) /\ ~IsH5(f, archive))
  THEN f
  ELSE LET e == IF IsH5(f, archive) THEN f[archive].ents ELSE <<>>
       IN IF key \in DOMAIN e THEN f
          ELSE PutNode(f, archive, H5Node(PutEnt(e, key, value)))

\* _toh5 with auto_verify_write off: an OSError of h5py.File is passed over
_toh5(f, archive, key, value, io_fail) ==
  IF io_fail \/ IsDir(f, archive) \/ (IsFile(f, archive) /\ ~IsH5(f, archive))
  THEN f
  ELSE LET e == IF IsH5(f, archive) THEN f[archive].ents ELSE <<>>
       IN PutNode(f, archive, H5Node(PutEnt(e, key, value)))

\* _write_direct_to_h5 with self.distribuited off
_write_direct_to_h5(f, file_path, value, depth, io_fail) ==
  LET ak == _get_archive_key_name(file_path, depth)
      parent == Split(ak[1])[1]
  IN IF ~MakeDirsOK(f, parent) THEN [fs |-> f, out |-> "OSError"]
     ELSE [fs |-> _toh5(MakeDirs(f, parent), ak[1], ak[2], value, io_fail),
           out |-> "ok"]

\* the NestedDirectoryStore part of __setitem__: temp file, then os.replace
SetRaw(f, file_path, value) ==
  LET f1 == IF IsDir(f, file_path) /\ file_path # <<>> THEN RmTree(f, file_path) ELSE f
      dir_path == Split(file_path)[1]
  IN IF IsFile(f1, dir_path) THEN [fs |-> f1, out |-> "KeyError"]
     ELSE IF ~Exists(f1, dir_path) /\ ~MakeDirsOK(f1, dir_path)
     THEN [fs |-> f1, out |-> "KeyError"]
     ELSE [fs |-> PutNode(MakeDirs(f1, dir_path), file_path, RawNode(value)),
           out |-> "ok"]

\* does __setitem__ take the write-direct branch
TakesDirect(f, c, key) ==
  c.write_direct /\ ~HasDot(key) /\ ~IsFile(f, FilePath(key))

SetItemResult(f, c, key, value, io_fail) ==
  IF TakesDirect(f, c, key)
  THEN _write_direct_to_h5(f, FilePath(key), value, c.consolidate_depth, io_fail)
  ELSE SetRaw(f, FilePath(key), value)

\* io_fail: h5py.File(archive, 'a') raises OSError (container busy)
SetItem(key, value, io_fail) ==
  /\ nops < MaxOps
  /\ io_fail => TakesDirect(fs, cfg, key)
  /\ LET r == SetItemResult(fs, cfg, key, value, io_fail)
     IN /\ fs' = r.fs
        /\ last' = [NoOp EXCEPT !.op = "set", !.key = key, !.val = value,
                      !.out = r.out, !.fail = io_fail,
                      !.coords = CoordsBelowRoot(fs, key),
                      !.hadraw = HasRaw(fs, key),
                      !.hadent = HasShardEntry(fs, key, cfg.consolidate_depth),
                      !.hadarchive = IsFile(fs, ArchiveOf(key, cfg.consolidate_depth))]
        /\ live' = IF r.out = "ok" THEN live \cup {key} ELSE live
  /\ nops' = nops + 1
  /\ UNCHANGED << cfg, codec, wk >>

(* ------------------------------ __init__ ------------------------------- *)
\* the directory an earlier store object (write_direct on, same depth) left:
\* nothing yet, or one chunk written into its container
EmptyDisk == [p \in { << StorePath[1] >> } |-> DirNode]
EarlierKeys == {K_chunk}
EarlierDisks(d) ==
  {EmptyDisk} \cup
  {_write_direct_to_h5(EmptyDisk, FilePath(k), v, d, FALSE).fs :
     k \in EarlierKeys, v \in Values}

\* the constructor touches no file; the parent directory of the store exists
Init ==
  /\ cfg \in [write_direct : BOOLEAN, consolidate_depth : Depths]
  /\ fs \in EarlierDisks(cfg.consolidate_depth)
  /\ last = NoOp
  /\ live = {k \in EarlierKeys : HasShardEntry(fs, k, cfg.consolidate_depth)}
  /\ nops = 0
  /\ codec = NoCodec
  /\ wk = NoWorkers

\* a store object constructed over the same directory with the other
\* write_direct flag
Reopen(wd) ==
  /\ nops < MaxOps
  /\ wd # cfg.write_direct
  /\ cfg' = [cfg EXCEPT !.write_direct = wd]
  /\ last' = [NoOp EXCEPT !.op = "open"]
  /\ nops' = nops + 1
  /\ UNCHANGED << fs, live, codec, wk >>

(* ----------------------------- __getitem__ ----------------------------- *)
\* _fromfile: the bytes of a plain file
_fromfile(f, fn) == IF f[fn].kind = "raw" THEN f[fn].data ELSE H5Bytes

\* as __getitem__, with the container entry read before the raw file
GetItemResult_shard_first(f, c, key, raw_fail, h5_fail) ==
  LET filepath == FilePath(key)
      ak == _get_archive_key_name(filepath, c.consolidate_depth)
  IN IF IsFile(f, ak[1]) /\ ~h5_fail /\ HasEnt(f, ak[1], ak[2])
     THEN [out |-> "ok", res |-> f[ak[1]].ents[ak[2]]]
     ELSE IF IsFile(f, filepath) /\ ~raw_fail
     THEN [out |-> "ok", res |-> _fromfile(f, filepath)]
     ELSE [out |-> "KeyError", res |-> Nil]

\* __getitem__ with mode 'a': the raw file first, then the container entry;
\* every exception of either read is passed over and ends in KeyError
GetItemResult(f, c, key, raw_fail, h5_fail) ==
  LET filepath == FilePath(key)
      ak == _get_archive_key_name(filepath, c.consolidate_depth)
  IN IF IsFile(f, filepath) /\ ~raw_fail
     THEN [out |-> "ok", res |-> _fromfile(f, filepath)]
     ELSE IF IsFile(f, ak[1]) /\ ~h5_fail /\ HasEnt(f, ak[1], ak[2])
     THEN [out |-> "ok", res |-> f[ak[1]].ents[ak[2]]]
     ELSE [out |-> "KeyError", res |-> Nil]

\* raw_fail: open/read of the raw file raises; h5_fail: h5py.File raises
GetItem(key, raw_fail, h5_fail) ==
  /\ last.op \in MutatingOps
  /\ raw_fail => HasRaw(fs, key)
  /\ h5_fail => IsFile(fs, ArchiveOf(key, cfg.consolidate_depth))
  /\ LET r == GetItemResult(fs, cfg, key, raw_fail, h5_fail)
     IN last' = [NoOp EXCEPT !.op = "get", !.key = key, !.out = r.out, !.res = r.res,
                   !.fail = raw_fail \/ h5_fail,
                   !.hadraw = HasRaw(fs, key),
                   !.hadent = HasShardEntry(fs, key, cfg.consolidate_depth),
                   !.hadarchive = IsFile(fs, ArchiveOf(key, cfg.consolidate_depth))]
  /\ UNCHANGED << fs, cfg, live, nops, codec, wk >>

(* ----------------------------- __delitem__ ----------------------------- *)
\* as __delitem__, with the container looked at only when no raw file or
\* directory was removed
DelItemResult_elif(f, c, key) ==
  LET path == FilePath(key)
      ak == _get_archive_key_name(path, c.consolidate_depth)
  IN IF IsFile(f, path) THEN [fs |-> Remove(f, path), out |-> "ok"]
     ELSE IF IsDir(f, path) THEN [fs |-> RmTree(f, path), out |-> "ok"]
     ELSE IF IsFile(f, ak[1])
     THEN IF ~IsH5(f, ak[1]) THEN [fs |-> f, out |-> "OSError"]
          ELSE [fs |-> PutNode(f, ak[1], H5Node(DelEnt(f[ak[1]].ents, ak[2]))),
                out |-> "ok"]
     ELSE [fs |-> f, out |-> "KeyError"]

\* the raw file (or directory) is removed, then the entry of the container;
\* KeyError exactly when no container file stands at the archive path
DelItemResult(f, c, key) ==
  LET path == FilePath(key)
      f1 == IF IsFile(f, path) THEN Remove(f, path)
            ELSE IF IsDir(f, path) THEN RmTree(f, path)
            ELSE f
      ak == _get_archive_key_name(path, c.consolidate_depth)
  IN IF IsFile(f1, ak[1])
     THEN IF ~IsH5(f1, ak[1]) THEN [fs |-> f1, out |-> "OSError"]
          ELSE [fs |-> PutNode(f1, ak[1], H5Node(DelEnt(f1[ak[1]].ents, ak[2]))),
                out |-> "ok"]
     ELSE [fs |-> f1, out |-> "KeyError"]

DelItem(key) ==
  /\ nops < MaxOps
  /\ LET r == DelItemResult(fs, cfg, key)
     IN /\ fs' = r.fs
        /\ last' = [NoOp EXCEPT !.op = "delete", !.key = key, !.out = r.out,
                      !.hadraw = HasRaw(fs, key),
                      !.hadent = HasShardEntry(fs, key, cfg.consolidate_depth),
                      !.hadarchive = IsFile(fs, ArchiveOf(key, cfg.consolidate_depth))]
  /\ live' = live \ {key}
  /\ nops' = nops + 1
  /\ UNCHANGED << cfg, codec, wk >>

(* ----------------------------- __contains__ ---------------------------- *)
\* _dset_in opens the container; a file that is no container raises OSError
ContainsResult(f, c, key) ==
  LET file_path == FilePath(key)
      ak == _get_archive_key_name(file_path, c.consolidate_depth)
  IN IF IsFile(f, file_path) THEN [out |-> "ok", found |-> TRUE]
     ELSE IF IsFile(f, ak[1])
     THEN IF IsH5(f, ak[1]) THEN [out |-> "ok", found |-> ak[2] \in DOMAIN f[ak[1]].ents]
          ELSE [out |-> "OSError", found |-> FALSE]
     ELSE [out |-> "ok", found |-> FALSE]

Contains(key) ==
  /\ last.op \in MutatingOps
  /\ LET r == ContainsResult(fs, cfg, key)
     IN last' = [NoOp EXCEPT !.op = "contains", !.key = key, !.out = r.out,
                   !.found = r.found,
                   !.hadraw = HasRaw(fs, key),
                   !.hadent = HasShardEntry(fs, key, cfg.consolidate_depth),
                   !.hadarchive = IsFile(fs, ArchiveOf(key, cfg.consolidate_depth))]
  /\ UNCHANGED << fs, cfg, live, nops, codec, wk >>

(* ------------------------------- keys() -------------------------------- *)
\* the files os.walk(self.path) visits: every file below the store path
WalkFiles(f) ==
  {p \in DOMAIN f : IsFile(f, p) /\ Len(p) > Len(StorePath) /\ IsPrefix(StorePath, p)}

\* os.path.relpath(.., self.path)
RelPath(p) == SubSeq(p, Len(StorePath) + 1, Len(p))

\* a file that _keys_fast expands: not in the store root, extension == container_ext
IsExpanded(p) ==
  /\ Len(RelPath(p)) > 1
  /\ SplitExt(p[Len(p)])[2] = container_ext

\* _keys_fast: the yields, each a pair << file and entry it came from, key >>;
\* files of the store root are yielded by name, containers elsewhere are
\* expanded to dirpath/basefile/entry with '.' replaced by the separator
_keys_fast(f) ==
  LET plain == {p \in WalkFiles(f) : ~IsExpanded(p)}
      conts == {p \in WalkFiles(f) : IsExpanded(p) /\ IsH5(f, p)}
  IN {<< << p, <<>> >>, RelPath(p) >> : p \in plain}
     \cup UNION {
          {<< << p, x >>,
              SubSeq(RelPath(p), 1, Len(RelPath(p)) - 1)
                \o << SplitExt(p[Len(p)])[1] >> \o SplitOnDot(x) >>
             : x \in DOMAIN f[p].ents}
          : p \in conts}

\* _get_zip_keys raises OSError on a file with the extension that is no container
KeysRaises(f) == \E p \in WalkFiles(f) : IsExpanded(p) /\ ~IsH5(f, p)

\* keys(): nothing when the store path does not exist
KeysResult(f) ==
  IF ~Exists(f, StorePath) THEN [out |-> "ok", yield |-> {}]
  ELSE IF KeysRaises(f) THEN [out |-> "OSError", yield |-> {}]
  ELSE [out |-> "ok", yield |-> _keys_fast(f)]

\* the set of keys yielded, and __len__: the number of yields
KeySet(y) == {e[2] : e \in y}
LenOf(y) == Cardinality(y)

KeysOp ==
  /\ last.op \in MutatingOps
  /\ LET r == KeysResult(fs)
     IN last' = [NoOp EXCEPT !.op = "keys", !.out = r.out, !.yield = r.yield]
  /\ UNCHANGED << fs, cfg, live, nops, codec, wk >>

(* --------------------------- specification ----------------------------- *)
Next ==
  \/ \E wd \in BOOLEAN : Reopen(wd)
  \/ \E k \in Keys, v \in Values, io_fail \in BOOLEAN : SetItem(k, v, io_fail)
  \/ \E k \in Keys, raw_fail \in BOOLEAN, h5_fail \in BOOLEAN : GetItem(k, raw_fail, h5_fail)
  \/ \E k \in Keys : DelItem(k)
  \/ \E k \in Keys : Contains(k)
  \/ KeysOp

Spec == Init /\ [][Next]_vars

(* ------------------- specification of the codec alone ------------------ *)
\* largest number of coordinate segments of the keys the codec is applied to
MaxCoords == 4

K_array467 == << nArray, n0, n0, n4, n6, n7 >>
K_arr467 == << nArr, n0, n0, n4, n6, n7 >>
K_arr469 == << nArr, n0, n0, n4, n6, n9 >>
K_arr567 == << nArr, n0, n0, n5, n6, n7 >>

\* dot-free keys: the keys of the examples, and array a with 0..MaxCoords
\* coordinate segments drawn from 0 and 1
CodecKeys ==
  {K_array467, K_arr467, K_arr469, K_arr567}
  \cup UNION {{<< nA >> \o c : c \in [1..m -> {n0, n1}]} : m \in 0..MaxCoords}

CodecDepths == 1..MaxDepth

InitCodec ==
  /\ fs = EmptyDisk
  /\ cfg = [write_direct |-> TRUE, consolidate_depth |-> 3]
  /\ last = NoOp
  /\ live = {}
  /\ nops = 0
  /\ codec \in {[NoCodec EXCEPT !.path = FilePath(k1), !.path2 = FilePath(k2), !.depth = d] :
                  k1 \in CodecKeys, k2 \in CodecKeys, d \in CodecDepths}
  /\ wk = NoWorkers

\* _get_archive_key_name applied to both paths with self._consolidate_depth = depth
ApplyCodec ==
  /\ ~codec.done
  /\ codec' = [codec EXCEPT !.r = _get_archive_key_name(codec.path, codec.depth),
                            !.r2 = _get_archive_key_name(codec.path2, codec.depth),
                            !.done = TRUE]
  /\ UNCHANGED << fs, cfg, last, live, nops, wk >>

NextCodec == ApplyCodec

SpecCodec == InitCodec /\ [][NextCodec]_vars

(* ------------------------------ properties ----------------------------- *)
RECURSIVE JoinDot(_)
\* '.'.join(segments)
JoinDot(segs) ==
  IF Len(segs) = 0 THEN <<>>
  ELSE IF Len(segs) = 1 THEN segs[1]
  ELSE segs[1] \o <<".">> \o JoinDot(Tail(segs))

\* the path of the container named after the first n segments of a path
ContainerAt(path, n) ==
  [i \in 1..n |-> IF i < n THEN path[i] ELSE path[i] \o container_ext]

\* the container and entry when the last n segments of a path are folded
Folded(path, n) ==
  << ContainerAt(path, Len(path) - n),
     JoinDot(SubSeq(path, Len(path) - n + 1, Len(path))) >>

\* number of trailing segments the code folds into the entry name
FoldOf(depth) == IF depth >= 2 THEN depth - 1 ELSE 1

\* the keys C1 is about: metadata keys, and dot-free keys with the array name
\* and at least depth coordinate segments
RoundTripKey(k, depth) == IsMetaKey(k) \/ (~HasDot(k) /\ Len(k) > depth)

\* C1: for a metadata key or a shard-eligible chunk key k, set(k, v) that
\* returned, followed immediately by get(k) (no read failing), returns
\* exactly v
C1_RoundTrip ==
  [][(/\ last.op = "set" /\ last.out = "ok"
      /\ RoundTripKey(last.key, cfg.consolidate_depth)
      /\ last'.op = "get" /\ last'.key = last.key /\ ~last'.fail)
     => (last'.out = "ok" /\ last'.res = last.val)]_vars

\* C2: delete(k) raises KeyError if and only if neither a raw file nor a shard
\* entry for k existed when it was called
C2_DeleteNotFoundIff ==
  last.op = "delete" =>
    (last.out = "KeyError" <=> (~last.hadraw /\ ~last.hadent))

\* C3: after delete(k) on a key stored as a raw file, a shard entry or both,
\* contains(k) is false, get(k) raises KeyError and no raw file and no shard
\* entry for k is left
C3_DeleteComplete ==
  (last.op = "delete" /\ (last.hadraw \/ last.hadent)) =>
    /\ ContainsResult(fs, cfg, last.key) = [out |-> "ok", found |-> FALSE]
    /\ GetItemResult(fs, cfg, last.key, FALSE, FALSE).out = "KeyError"
    /\ ~HasRaw(fs, last.key)
    /\ ~HasShardEntry(fs, last.key, cfg.consolidate_depth)

C3_Witness == last.op = "delete" /\ last.hadraw /\ last.hadent

\* C4: when a raw file and a shard entry both exist for a key and no read
\* fails, get returns the raw file's bytes and contains is true
C4_Precedence ==
  /\ (last.op = "get" /\ last.hadraw /\ last.hadent /\ ~last.fail) =>
       /\ last.out = "ok"
       /\ last.res = fs[FilePath(last.key)].data
  /\ (last.op = "contains" /\ last.hadraw /\ last.hadent) =>
       /\ last.out = "ok"
       /\ last.found

C4_Witness ==
  /\ last.op = "get" /\ last.hadraw /\ last.hadent /\ ~last.fail
  /\ LET ak == _get_archive_key_name(FilePath(last.key), cfg.consolidate_depth)
     IN fs[ak[1]].ents[ak[2]] # fs[FilePath(last.key)].data

\* C5 as stated: depth D folds the last D segments into the entry name; with
\* D = 3, array/0/0/4/6/7 maps to container array/0/0.<ext>, entry 4.6.7
C5_FoldsLastD ==
  codec.done =>
    /\ Len(codec.path) - Len(StorePath) > codec.depth =>
         codec.r = Folded(codec.path, codec.depth)
    /\ (codec.depth = 3 /\ codec.path = FilePath(K_array467)) =>
         codec.r = << StorePath \o << nArray, n0, <<"0", ".", "h", "5">> >>,
                      <<"4", ".", "6", ".", "7">> >>

\* C5 amended: depth D folds the last max(D - 1, 1) segments into the entry
\* name (joined by '.', most significant first) and names the container after
\* the remaining prefix plus the extension; with D = 3, array/0/0/4/6/7 maps
\* to container array/0/0/4.<ext>, entry 6.7
C5_FoldsLastDMinus1 ==
  codec.done =>
    /\ Len(codec.path) > FoldOf(codec.depth) =>
         codec.r = Folded(codec.path, FoldOf(codec.depth))
    /\ (codec.depth = 3 /\ codec.path = FilePath(K_array467)) =>
         codec.r = << StorePath \o << nArray, n0, n0, <<"4", ".", "h", "5">> >>,
                      <<"6", ".", "7">> >>

C5_Witness == codec.done /\ codec.depth = 3 /\ codec.path = FilePath(K_array467)

\* C6: for a fixed depth two chunk keys map to the same container iff they
\* agree on every segment before the sharding boundary, two distinct keys of
\* one container get distinct entry names; with D = 3, arr/0/0/4/6/7 and
\* arr/0/0/4/6/9 share a container with different entries and arr/0/0/5/6/7
\* maps to another container
C6_ShardGrouping ==
  codec.done =>
    LET n == FoldOf(codec.depth)
        p == codec.path
        q == codec.path2
    IN /\ (Len(p) > n /\ Len(q) > n) =>
            /\ (codec.r[1] = codec.r2[1]) <=>
                 (SubSeq(p, 1, Len(p) - n) = SubSeq(q, 1, Len(q) - n))
            /\ (codec.r[1] = codec.r2[1] /\ p # q) => codec.r[2] # codec.r2[2]
       /\ (codec.depth = 3 /\ p = FilePath(K_arr467) /\ q = FilePath(K_arr469)) =>
            (codec.r[1] = codec.r2[1] /\ codec.r[2] # codec.r2[2])
       /\ (codec.depth = 3 /\ p = FilePath(K_arr467) /\ q = FilePath(K_arr567)) =>
            codec.r[1] # codec.r2[1]

C6_Witness ==
  /\ codec.done /\ codec.depth = 3
  /\ codec.path = FilePath(K_arr467) /\ codec.path2 = FilePath(K_arr567)

\* the container a/0.<ext> of the store
A0Container == StorePath \o << nA, <<"0", ".", "h", "5">> >>

\* the case of C7: set("a/0/0/2", v) returned, D = 3, write_direct on, no raw
\* file at a/0/0/2, the container opened
C7_Case ==
  /\ last.op = "set" /\ last.key = K_chunk /\ last.out = "ok" /\ ~last.fail
  /\ cfg.consolidate_depth = 3 /\ cfg.write_direct /\ ~last.hadraw

C8_ShallowStaysRaw ==
  (/\ last.op = "set" /\ last.out = "ok" /\ cfg.write_direct
   /\ last.coords < cfg.consolidate_depth) =>
    /\ HasRaw(fs, last.key)
    /\ fs[FilePath(last.key)] = RawNode(last.val)
    /\ ~HasShardEntry(fs, last.key, cfg.consolidate_depth)

\* C9: every key with a segment starting with '.' is stored as a raw file and
\* never as a shard entry, and a set (write_direct on, no raw file in place,
\* container opened) of a key with no segment starting with '.' and at least
\* D segments below its array root is stored as a chunk, in its container
C9_MetadataTest ==
  /\ \A k \in Keys : IsMetaKey(k) => ~HasShardEntry(fs, k, cfg.consolidate_depth)
  /\ (/\ last.op = "set" /\ last.out = "ok" /\ ~last.fail
      /\ cfg.write_direct /\ ~last.hadraw
      /\ ~IsMetaKey(last.key)
      /\ last.coords >= cfg.consolidate_depth) =>
       /\ HasShardEntry(fs, last.key, cfg.consolidate_depth)
       /\ ~HasRaw(fs, last.key)

\* the keys of Keys that have a raw file or a shard entry
Stored == {k \in Keys : HasRaw(fs, k) \/ HasShardEntry(fs, k, cfg.consolidate_depth)}

\* C10: keys() yields exactly the keys that were set and not deleted, each
\* once, and len() is their number; stated for the states where every such
\* key is stored, and stored once (as a raw file or as a shard entry)
C10_Enumeration ==
  (/\ last.op = "keys" /\ last.out = "ok"
   /\ live = Stored
   /\ \A k \in Keys : ~(HasRaw(fs, k) /\ HasShardEntry(fs, k, cfg.consolidate_depth))) =>
    /\ KeySet(last.yield) = live
    /\ LenOf(last.yield) = Cardinality(live)

(* ============================ consolidation ============================ *)
\* largest number of coordinate segments of the flat-file arrays drawn
MaxRank == 4
\* largest number of consolidate() calls of one behaviour
MaxRuns == 2

\* the plain files below a directory (os.walk of it)
FilesUnder(f, d) == {p \in DOMAIN f : IsFile(f, p) /\ Len(p) > Len(d) /\ IsPrefix(d, p)}

\* _arrays: the store path when it holds .zarray, else every directory below
\* it that holds .zarray
_arrays(f) ==
  IF IsFile(f, StorePath \o << nZarray >>) THEN {StorePath}
  ELSE {d \in DOMAIN f : /\ IsDir(f, d) /\ Len(d) > Len(StorePath)
                         /\ IsPrefix(StorePath, d)
                         /\ Exists(f, d \o << nZarray >>)}

\* path_depth: the separators of the path minus those of compare_path
path_depth(path, compare_path) == Len(path) - Len(compare_path)

\* '.z' in f
HasDotZ(name) == \E i \in 1..(Len(name) - 1) : name[i] = "." /\ name[i + 1] = "z"

\* get_unique_archive_locations: the containers of the files that lie more
\* than consolidate_depth segments below an array root and have no '.z' in
\* their name
get_unique_archive_locations(f, depth) ==
  {_get_archive_key_name(p, depth)[1] :
     p \in {q \in UNION {FilesUnder(f, a) : a \in _arrays(f)} :
              /\ ~HasDotZ(q[Len(q)])
              /\ \E a \in _arrays(f) :
                   IsPrefix(a, q) /\ path_depth(q, a) > depth}}

\* os.path.splitext(unique)[0]
PathNameOf(archive) == [archive EXCEPT ![Len(archive)] = SplitExt(@)[1]]

\* _migrate_path_to_archive: the container is opened (created when missing),
\* every file below path_name becomes the entry its own path is folded to
\* and is removed.  Two files folded to one entry name replace each other in
\* walk order; the arrays drawn here have no such pair.
_migrate_path_to_archive(f, archive, path_name, depth) ==
  LET files == FilesUnder(f, path_name)
      e0 == IF IsH5(f, archive) THEN f[archive].ents ELSE <<>>
      names == {_get_archive_key_name(p, depth)[2] : p \in files}
      src(n) == CHOOSE p \in files : _get_archive_key_name(p, depth)[2] = n
      e1 == [n \in (DOMAIN e0 \cup names) |->
               IF n \in names THEN _fromfile(f, src(n)) ELSE e0[n]]
      kept == [q \in (DOMAIN f \ files) |-> f[q]]
  IN PutNode(kept, archive, H5Node(e1))

RECURSIVE MigrateAll(_, _, _)
\* the loop of consolidate over the unique containers (run one by one, or by
\* dask.compute); the subtrees of the containers drawn here are disjoint
MigrateAll(f, archives, depth) ==
  IF archives = {} THEN f
  ELSE LET a == CHOOSE x \in archives : TRUE
       IN MigrateAll(_migrate_path_to_archive(f, a, PathNameOf(a), depth),
                     archives \ {a}, depth)

\* as the clean-up, without the bottom-up order: only the directories that
\* were empty when the clean-up began are removed
PruneEmpty_leaves_only(f) ==
  LET doomed == {d \in DOMAIN f :
                   /\ IsDir(f, d)
                   /\ \E a \in _arrays(f) : IsPrefix(a, d) /\ Len(d) > Len(a)
                   /\ ~\E q \in DOMAIN f : Len(q) > Len(d) /\ IsPrefix(d, q)}
  IN [q \in (DOMAIN f \ doomed) |-> f[q]]

\* the clean-up of consolidate: os.walk visits the directories below each
\* array root bottom-up and removes those that are empty when visited, so a
\* directory goes when no file is left anywhere below it
PruneEmpty(f) ==
  LET doomed == {d \in DOMAIN f :
                   /\ IsDir(f, d)
                   /\ \E a \in _arrays(f) : IsPrefix(a, d) /\ Len(d) > Len(a)
                   /\ FilesUnder(f, d) = {}}
  IN [q \in (DOMAIN f \ doomed) |-> f[q]]

\* consolidate(): h5py.File raises OSError on a file that is no container
ConsolidateResult(f, depth) ==
  LET archives == get_unique_archive_locations(f, depth)
  IN IF \E a \in archives : Exists(f, a) /\ ~IsH5(f, a)
     THEN [fs |-> f, out |-> "OSError"]
     ELSE [fs |-> PruneEmpty(MigrateAll(f, archives, depth)), out |-> "ok"]

Consolidate ==
  /\ nops < MaxRuns
  /\ LET r == ConsolidateResult(fs, cfg.consolidate_depth)
     IN /\ fs' = r.fs
        /\ last' = [NoOp EXCEPT !.op = "consolidate", !.out = r.out]
  /\ nops' = nops + 1
  /\ UNCHANGED << cfg, live, codec, wk >>

(* ------------------------------- listdir ------------------------------- *)
\* _prog_number = re.compile(r'^\d+$')
IsDigit(c) == c \in {"0", "1", "2", "3", "4", "5", "6", "7", "8", "9"}
_prog_number(name) == Len(name) > 0 /\ \A i \in 1..Len(name) : IsDigit(name[i])

\* _flat_listdir: the names in the directory, nothing when it is no directory
_flat_listdir(f, path) ==
  LET dir_path == StorePath \o path
  IN IF IsDir(f, dir_path)
     THEN {p[Len(p)] : p \in {q \in DOMAIN f : Len(q) = Len(dir_path) + 1
                                               /\ IsPrefix(dir_path, q)}}
     ELSE {}

\* _nested_listdir: the children, each a pair << path it came from, name >>;
\* in a directory holding .zarray every file below a numeric directory is
\* listed by its relative path with the separators replaced by '.'
_nested_listdir(f, path) ==
  LET children == _flat_listdir(f, path)
      root_path == StorePath \o path
      walked == {entry \in children :
                   _prog_number(entry) /\ IsDir(f, root_path \o << entry >>)}
  IN IF nZarray \in children
     THEN {<< root_path \o << entry >>, entry >> : entry \in children \ walked}
          \cup {<< p, JoinDot(SubSeq(p, Len(root_path) + 1, Len(p))) >> :
                  p \in UNION {FilesUnder(f, root_path \o << entry >>) : entry \in walked}}
     ELSE {<< root_path \o << entry >>, entry >> : entry \in children}

ListDir(path) ==
  /\ last.op \in MutatingOps
  /\ last' = [NoOp EXCEPT !.op = "listdir", !.key = path,
                          !.yield = _nested_listdir(fs, path)]
  /\ UNCHANGED << fs, cfg, live, nops, codec, wk >>

(* -------------------- specification of consolidation ------------------- *)
\* the consolidate_depth values of the stores that consolidate
ConsDepths == {1, 2, 3}
\* where the array lies: the store path itself, or directory a of the store
ArrRoots == {<<>>, << nA >>}
\* the chunk coordinates of an array of the given rank: the first and the
\* last coordinate are 0 or 1, the ones between are 0
Grid(rank) == {c \in [1..rank -> {n0, n1}] : \A i \in 2..(rank - 1) : c[i] = n0}
\* the bytes of a chunk
ChunkVal(k) == IF k[Len(k)] = n0 THEN 1 ELSE 2

\* the disk a store with write_direct off leaves after set of the keys: a raw
\* file per key, directories above
FlatDisk(keys) ==
  LET files == {FilePath(k) : k \in keys}
      dirs == UNION {Prefixes(SubSeq(p, 1, Len(p) - 1)) : p \in files}
  IN [p \in (files \cup dirs \cup DOMAIN EmptyDisk) |->
        IF p \in files
        THEN RawNode(ChunkVal(SubSeq(p, Len(StorePath) + 1, Len(p))))
        ELSE DirNode]

InitCons ==
  /\ cfg \in [write_direct : {TRUE}, consolidate_depth : ConsDepths]
  /\ \E root \in ArrRoots, rank \in 1..MaxRank :
       \E cs \in (SUBSET Grid(rank)) \ {{}} :
         /\ live = {root \o << nZarray >>} \cup {root \o c : c \in cs}
         /\ fs = FlatDisk(live)
  /\ last = NoOp
  /\ nops = 0
  /\ codec = NoCodec
  /\ wk = NoWorkers

NextCons ==
  \/ Consolidate
  \/ \E path \in ArrRoots : ListDir(path)
  \/ KeysOp

SpecCons == InitCons /\ [][NextCons]_vars

(* ---------------------- properties of consolidation -------------------- *)
\* the array the behaviour started from: its root (as a key prefix), its
\* chunk keys and their number of coordinate segments
ArrRootKey == LET m == CHOOSE k \in live : k[Len(k)] = nZarray
              IN SubSeq(m, 1, Len(m) - 1)
ChunkKeys == {k \in live : k[Len(k)] # nZarray}
RankOf(k) == Len(k) - Len(ArrRootKey)
FullyPopulated == \A k \in ChunkKeys : Cardinality(ChunkKeys) = Cardinality(Grid(RankOf(k)))

\* C11: consolidate on a store that was consolidated before raises nothing
\* and changes nothing: the tree on disk (so no container or entry is made
\* and no container file is moved into another container) and the keys
\* yielded by keys() are the same before and after (stated for the depths 2
\* and 3)
C11_SecondRunNoOp ==
  [][(/\ nops >= 1 /\ nops' = nops + 1 /\ last'.op = "consolidate"
      /\ cfg.consolidate_depth \in Depths)
     => (/\ last'.out = "ok"
         /\ fs' = fs
         /\ KeysResult(fs') = KeysResult(fs))]_vars

\* C12: after one consolidate of a flat-file array, every chunk whose key
\* has at least consolidate_depth coordinate segments below the array root
\* is an entry (with its bytes) of the container the codec gives its key,
\* its source file is gone, and the metadata file is untouched (stated for the
\* depths 2 and 3)
C12_ConsolidatePost ==
  (nops = 1 /\ last.op = "consolidate" /\ cfg.consolidate_depth \in Depths) =>
    /\ \A k \in ChunkKeys :
         RankOf(k) >= cfg.consolidate_depth =>
           /\ HasShardEntry(fs, k, cfg.consolidate_depth)
           /\ fs[ArchiveOf(k, cfg.consolidate_depth)].ents[EntryOf(k, cfg.consolidate_depth)]
                = ChunkVal(k)
           /\ ~HasRaw(fs, k)
    /\ \A k \in live \ ChunkKeys :
         HasRaw(fs, k) /\ fs[FilePath(k)] = RawNode(ChunkVal(k))

\* C13: for a fully populated flat-file array, the set of keys yielded by
\* keys() after consolidate equals the set yielded before it
C13_EnumerationEquivalence ==
  [][(nops = 0 /\ nops' = 1 /\ last'.op = "consolidate" /\ FullyPopulated)
     => KeySet(KeysResult(fs').yield) = KeySet(KeysResult(fs).yield)]_vars

\* C14: listdir of the directory that holds the array metadata lists the
\* metadata file and each chunk as its '.'-joined coordinates, whether the
\* chunks are flat files or entries of containers, and no container file name
\* (stated for the depths 2 and 3)
C14_ListdirSameChildren ==
  (last.op = "listdir" /\ last.key = ArrRootKey /\ cfg.consolidate_depth \in Depths) =>
    KeySet(last.yield) =
      {JoinDot(SubSeq(k, Len(ArrRootKey) + 1, Len(k))) : k \in live}

(* ======================= the calls, step by step ======================= *)
\* The calls of the workers interleave at the file system calls and at the
\* lock.  A worker record holds the call (op, key, val), the position (pc),
\* the named lock it holds (lock), the container it has open (inside, imode),
\* its temporary file (tmp), the values its returned sets wrote (wrote) and
\* the sets it has called (called).

\* the value the counter 'times' of _toh5 is followed up to
MaxTimes == 2
\* the bytes of a file that is opened for writing and not written to the end,
\* or that reads back differently from what was written
Torn == -2

Upd(w, rec) == [wk EXCEPT ![w] = rec]
\* the call ends (returns or raises): handles and locks are given back
Done(rec, out, res) ==
  [rec EXCEPT !.pc = "done", !.out = out, !.res = res,
              !.lock = <<>>, !.inside = <<>>, !.imode = ""]

\* HDF5 file locking (locking=True): an open fails while another handle is
\* open on the file, unless both only read
Conflict(w, archive, mode) ==
  \E v \in Workers \ {w} :
    wk[v].inside = archive /\ (mode = "a" \/ wk[v].imode = "a")

\* distributed.Lock(name=archive): held by another worker
Locked(w, name) == \E v \in Workers \ {w} : wk[v].lock = name

\* uuid.uuid4().hex of the call: no two calls draw the same
TempSuffix(w) == IF w = 1 THEN <<".", "u", "1", ".", "p">>
                 ELSE IF w = 2 THEN <<".", "u", "2", ".", "p">>
                 ELSE <<".", "u", "3", ".", "p">>

\* as the temp_path of __setitem__, with the destination itself written to
temp_path_in_place(file_path, w) == file_path

\* temp_path = dir_path/f'{file_name}.{uuid.uuid4().hex}.partial'
temp_path(file_path, w) == AppendExt(file_path, TempSuffix(w))

\* __setitem__ up to the first write: the write-direct test and makedirs of
\* _write_direct_to_h5, or the directory checks of the raw-file part
SetCall(w, key, value) ==
  /\ wk[w].pc = "idle"
  /\ nops < MaxOps
  /\ LET me == [wk[w] EXCEPT !.op = "set", !.key = key, !.val = value, !.times = 0,
                              !.called = @ \cup {<< key, value >>}]
         file_path == FilePath(key)
         archive == ArchiveOf(key, cfg.consolidate_depth)
         parent == Split(archive)[1]
         f1 == IF IsDir(fs, file_path) THEN RmTree(fs, file_path) ELSE fs
         dir_path == Split(file_path)[1]
     IN IF TakesDirect(fs, cfg, key)
        THEN IF ~MakeDirsOK(fs, parent)
             THEN fs' = fs /\ wk' = Upd(w, Done(me, "OSError", Nil))
             ELSE /\ fs' = MakeDirs(fs, parent)
                  /\ wk' = Upd(w, [me EXCEPT !.pc = IF cfg.distribuited THEN "lock"
                                                    ELSE "h5open"])
        ELSE IF IsFile(f1, dir_path) \/ (~Exists(f1, dir_path) /\ ~MakeDirsOK(f1, dir_path))
             THEN fs' = f1 /\ wk' = Upd(w, Done(me, "KeyError", Nil))
             ELSE /\ fs' = MakeDirs(f1, dir_path)
                  /\ wk' = Upd(w, [me EXCEPT !.pc = "tofile",
                                             !.tmp = temp_path(file_path, w)])
  /\ nops' = nops + 1
  /\ UNCHANGED << cfg, last, live, codec >>

\* __getitem__ up to the container: the raw file is read at once; the
\* container is read under the named lock only through _read_direct_to_h5
GetCall(w, key) ==
  /\ wk[w].pc = "idle"
  /\ nops < MaxOps
  /\ LET me == [wk[w] EXCEPT !.op = "get", !.key = key, !.val = Nil, !.times = 0]
         filepath == FilePath(key)
         archive == ArchiveOf(key, cfg.consolidate_depth)
     IN wk' = Upd(w,
          IF IsFile(fs, filepath) THEN Done(me, "ok", _fromfile(fs, filepath))
          ELSE IF ~IsFile(fs, archive) THEN Done(me, "KeyError", Nil)
          ELSE IF cfg.write_direct /\ cfg.mode # "r" /\ cfg.distribuited
          THEN [me EXCEPT !.pc = "lock"]
          ELSE [me EXCEPT !.pc = "h5open"])
  /\ nops' = nops + 1
  /\ UNCHANGED << fs, cfg, last, live, codec >>

\* __delitem__ up to the container: the raw file or directory is removed
DelCall(w, key) ==
  /\ wk[w].pc = "idle"
  /\ nops < MaxOps
  /\ LET me == [wk[w] EXCEPT !.op = "delete", !.key = key, !.val = Nil, !.times = 0]
         path == FilePath(key)
         f1 == IF IsFile(fs, path) THEN Remove(fs, path)
               ELSE IF IsDir(fs, path) THEN RmTree(fs, path)
               ELSE fs
         archive == ArchiveOf(key, cfg.consolidate_depth)
     IN /\ fs' = f1
        /\ wk' = Upd(w,
             IF ~IsFile(f1, archive) THEN Done(me, "KeyError", Nil)
             ELSE IF cfg.distribuited THEN [me EXCEPT !.pc = "lock"]
             ELSE [me EXCEPT !.pc = "h5open"])
  /\ nops' = nops + 1
  /\ UNCHANGED << cfg, last, live, codec >>

\* lock = self.Lock(name=archive); with lock: ...
\* lock_fail: creating or acquiring the lock raises.  _write_direct_to_h5
\* prints the exception and returns, _read_direct_to_h5 re-raises into the
\* bare except of __getitem__, __delitem__ lets it out
Acquire(w, lock_fail) ==
  /\ wk[w].pc = "lock"
  /\ LET me == wk[w]
         archive == ArchiveOf(me.key, cfg.consolidate_depth)
     IN IF lock_fail
        THEN wk' = Upd(w, CASE me.op = "set" -> Done(me, "ok", Nil)
                            [] me.op = "get" -> Done(me, "KeyError", Nil)
                            [] OTHER -> Done(me, "Exception", Nil))
        ELSE /\ ~Locked(w, archive)
             /\ wk' = Upd(w, [me EXCEPT !.pc = "h5open", !.lock = archive])
  /\ UNCHANGED << fs, cfg, last, live, nops, codec >>

\* _toh5 after the write attempt: verify when auto_verify_write, else return
AfterWrite(rec) ==
  IF cfg.auto_verify_write
  THEN [rec EXCEPT !.pc = "h5verify", !.inside = <<>>, !.imode = "",
                   !.times = IF @ < MaxTimes THEN @ + 1 ELSE @]
  ELSE Done(rec, "ok", Nil)

\* h5py.File(archive, mode, locking=True) of _toh5 ('a'), _fromh5 ('r') and
\* __delitem__ ('a').  io_fail: the open raises OSError (the file is busy).
\* _toh5 passes the OSError over, __getitem__ turns it into KeyError,
\* __delitem__ lets it out
H5Enter(w, io_fail) ==
  /\ wk[w].pc = "h5open"
  /\ LET me == wk[w]
         archive == ArchiveOf(me.key, cfg.consolidate_depth)
         mode == IF me.op = "get" THEN "r" ELSE "a"
         bad == \/ IsDir(fs, archive)
                \/ (IsFile(fs, archive) /\ ~IsH5(fs, archive))
                \/ (mode = "r" /\ ~IsFile(fs, archive))
     IN /\ Conflict(w, archive, mode) => io_fail
        /\ IF io_fail \/ bad
           THEN /\ fs' = fs
                /\ wk' = Upd(w, CASE me.op = "set" -> AfterWrite(me)
                                  [] me.op = "get" -> Done(me, "KeyError", Nil)
                                  [] OTHER -> Done(me, "OSError", Nil))
           ELSE /\ fs' = IF IsFile(fs, archive) THEN fs
                         ELSE PutNode(fs, archive, H5Node(<<>>))
                /\ wk' = Upd(w, [me EXCEPT !.pc = "h5in", !.inside = archive,
                                           !.imode = mode])
  /\ UNCHANGED << cfg, last, live, nops, codec >>

\* as H5Leave, with the container of a set opened in mode 'w': the entries
\* it held are gone
H5Leave_truncate(w) ==
  /\ wk[w].pc = "h5in"
  /\ LET me == wk[w]
         archive == me.inside
         entry == EntryOf(me.key, cfg.consolidate_depth)
         e == fs[archive].ents
     IN CASE me.op = "set" ->
               /\ fs' = PutNode(fs, archive, H5Node(PutEnt(<<>>, entry, me.val)))
               /\ wk' = Upd(w, AfterWrite(me))
          [] me.op = "get" ->
               /\ fs' = fs
               /\ wk' = Upd(w, IF entry \in DOMAIN e THEN Done(me, "ok", e[entry])
                               ELSE Done(me, "KeyError", Nil))
          [] OTHER ->
               /\ fs' = PutNode(fs, archive, H5Node(DelEnt(e, entry)))
               /\ wk' = Upd(w, Done(me, "ok", Nil))
  /\ UNCHANGED << cfg, last, live, nops, codec >>

\* the body of the with-block, and the close of the file: the entry is
\* replaced (set), read (get) or deleted (delete)
H5Leave(w) ==
  /\ wk[w].pc = "h5in"
  /\ LET me == wk[w]
         archive == me.inside
         entry == EntryOf(me.key, cfg.consolidate_depth)
         e == fs[archive].ents
     IN CASE me.op = "set" ->
               /\ fs' = PutNode(fs, archive, H5Node(PutEnt(e, entry, me.val)))
               /\ wk' = Upd(w, AfterWrite(me))
          [] me.op = "get" ->
               /\ fs' = fs
               /\ wk' = Upd(w, IF entry \in DOMAIN e THEN Done(me, "ok", e[entry])
                               ELSE Done(me, "KeyError", Nil))
          [] OTHER ->
               /\ fs' = PutNode(fs, archive, H5Node(DelEnt(e, entry)))
               /\ wk' = Upd(w, Done(me, "ok", Nil))
  /\ UNCHANGED << cfg, last, live, nops, codec >>

\* the verification of _toh5: _fromh5(archive, key) == value ends the loop, a
\* KeyError or other bytes start it again, an OSError of the open is not
\* caught by _toh5 (under the named lock _write_direct_to_h5 prints it and
\* returns).  read_fail: the open for reading raises OSError
H5Verify(w, read_fail) ==
  /\ wk[w].pc = "h5verify"
  /\ LET me == wk[w]
         archive == ArchiveOf(me.key, cfg.consolidate_depth)
         entry == EntryOf(me.key, cfg.consolidate_depth)
     IN /\ Conflict(w, archive, "r") => read_fail
        /\ read_fail => IsFile(fs, archive)
        /\ wk' = Upd(w,
             IF read_fail \/ ~IsH5(fs, archive)
             THEN Done(me, IF cfg.distribuited THEN "ok" ELSE "OSError", Nil)
             ELSE IF HasEnt(fs, archive, entry) /\ fs[archive].ents[entry] = me.val
             THEN Done(me, "ok", Nil)
             ELSE [me EXCEPT !.pc = "h5open"])
  /\ UNCHANGED << fs, cfg, last, live, nops, codec >>

\* _tofile: open(fn, mode='wb') creates or truncates the file
ToFileOpen(w) ==
  /\ wk[w].pc = "tofile"
  /\ LET me == wk[w]
     IN IF ~IsDir(fs, Split(me.tmp)[1]) \/ IsDir(fs, me.tmp)
        THEN fs' = fs /\ wk' = Upd(w, Done(me, "OSError", Nil))
        ELSE /\ fs' = PutNode(fs, me.tmp, RawNode(Torn))
             /\ wk' = Upd(w, [me EXCEPT !.pc = "towrite"])
  /\ UNCHANGED << cfg, last, live, nops, codec >>

\* _tofile: f.write(a) and close, then the read-back when auto_verify_write.
\* readback_ok: the file holds the bytes written
ToFileWrite(w, readback_ok) ==
  /\ wk[w].pc = "towrite"
  /\ LET me == wk[w]
     IN /\ fs' = PutNode(fs, me.tmp, RawNode(IF readback_ok THEN me.val ELSE Torn))
        /\ wk' = Upd(w, [me EXCEPT !.pc = IF cfg.auto_verify_write /\ ~readback_ok
                                          THEN "tofile" ELSE "replace"])
  /\ UNCHANGED << cfg, last, live, nops, codec >>

\* retry_call(os.replace, (temp_path, file_path)) and the finally clause.
\* perm_fail: os.replace raises PermissionError in every attempt
Replace(w, perm_fail) ==
  /\ wk[w].pc = "replace"
  /\ LET me == wk[w]
         file_path == FilePath(me.key)
         fails == perm_fail \/ ~IsFile(fs, me.tmp) \/ IsDir(fs, file_path)
         f1 == IF fails \/ me.tmp = file_path THEN fs
               ELSE PutNode(Remove(fs, me.tmp), file_path, fs[me.tmp])
     IN /\ fs' = IF Exists(f1, me.tmp) THEN Remove(f1, me.tmp) ELSE f1
        /\ wk' = Upd(w, IF perm_fail THEN Done(me, "PermissionError", Nil)
                        ELSE IF fails THEN Done(me, "OSError", Nil)
                        ELSE Done(me, "ok", Nil))
  /\ UNCHANGED << cfg, last, live, nops, codec >>

\* the call is over: the worker is free for the next call
Return(w) ==
  /\ wk[w].pc = "done"
  /\ wk' = Upd(w, [NoCall EXCEPT !.called = wk[w].called,
                                  !.wrote =
                     IF wk[w].op = "set" /\ wk[w].out = "ok"
                     THEN PutEnt(wk[w].wrote, wk[w].key, wk[w].val)
                     ELSE wk[w].wrote])
  /\ UNCHANGED << fs, cfg, last, live, nops, codec >>

\* the worker's process dies inside a call: nothing of the call runs on, the
\* finally clause included
Crash(w) ==
  /\ wk[w].pc \notin {"idle", "done", "crashed"}
  /\ wk' = Upd(w, [wk[w] EXCEPT !.pc = "crashed", !.lock = <<>>,
                                !.inside = <<>>, !.imode = ""])
  /\ UNCHANGED << fs, cfg, last, live, nops, codec >>

(* ------------- specification of one writer and its failures ------------ *)
\* one worker sets a chunk key and a metadata key; the opens, the lock and
\* the read-backs may fail
VerifyKeys == {K_chunk, K_meta}

InitVerify ==
  /\ cfg \in [write_direct : {TRUE}, consolidate_depth : {3},
              auto_verify_write : BOOLEAN, distribuited : BOOLEAN, mode : {"a"}]
  /\ fs \in EarlierDisks(cfg.consolidate_depth)
  /\ last = NoOp
  /\ live = {}
  /\ nops = 0
  /\ codec = NoCodec
  /\ wk = NoWorkers

NextVerify ==
  \/ \E k \in VerifyKeys, v \in Values : SetCall(1, k, v)
  \/ \E lock_fail \in BOOLEAN : Acquire(1, lock_fail)
  \/ \E io_fail \in BOOLEAN : H5Enter(1, io_fail)
  \/ H5Leave(1)
  \/ \E read_fail \in BOOLEAN : H5Verify(1, read_fail)
  \/ ToFileOpen(1)
  \/ \E readback_ok \in BOOLEAN : ToFileWrite(1, readback_ok)
  \/ \E perm_fail \in BOOLEAN : Replace(1, perm_fail)
  \/ Return(1)

SpecVerify == InitVerify /\ [][NextVerify]_vars

\* the worker is scheduled: a call that can take a step takes one
SpecVerifyFair == SpecVerify /\ WF_vars(NextVerify)

(* ----------------------- properties of one writer ---------------------- *)
\* the call went to the container: a dot-free key, no raw file in the way
WentDirect(rec) == rec.op = "set" /\ ~HasDot(rec.key) /\ rec.tmp = <<>>

\* C15: a set of a shard-eligible key that returns normally has stored the
\* value: get of the key returns it, whatever failed on the way (the open of
\* the container, the lock), with verification on or off
C15_NeverSilentlyDropped ==
  \A w \in Workers :
    (wk[w].pc = "done" /\ WentDirect(wk[w]) /\ wk[w].out = "ok") =>
      GetItemResult(fs, cfg, wk[w].key, FALSE, FALSE)
        = [out |-> "ok", res |-> wk[w].val]

\* C16: with auto_verify_write on, every set comes to an end (returns or
\* raises), however often the write fails or the read-back mismatches
C16_SetTerminates ==
  (cfg.auto_verify_write /\ wk[1].op = "set") ~> (wk[1].pc = "done")

(* --------------- specification of the store with the lock -------------- *)
\* for _ in range(10): the attempts of _setup_dist_lock to get the client
LockAttempts == 10

K_chunk4 == << nA, n0, n0, n4 >>
\* two chunk keys of one container
LockKeys == {K_chunk, K_chunk4}

\* __init__ and _setup_dist_lock.  lib_ok: 'from distributed import ...'
\* succeeds; reach: the first attempt in which worker_client() does not
\* raise, 0 when every attempt raises
ConstructResult(c, lib_ok, reach) ==
  LET distribuited_lock == c.distribuited_lock /\ c.write_direct /\ lib_ok
  IN IF c.write_direct /\ distribuited_lock
     THEN IF reach \in 1..LockAttempts
          THEN [c EXCEPT !.distribuited = TRUE, !.built = "ok"]
          ELSE [c EXCEPT !.distribuited = FALSE, !.built = "NotImplementedError"]
     ELSE [c EXCEPT !.distribuited = FALSE, !.built = "ok"]

Construct(lib_ok, reach) ==
  /\ cfg.built = "no"
  /\ cfg' = ConstructResult(cfg, lib_ok, reach)
  /\ UNCHANGED << fs, last, live, nops, codec, wk >>

\* the open of the worker's container fails exactly when HDF5 file locking
\* refuses it
Busy(w) ==
  Conflict(w, ArchiveOf(wk[w].key, cfg.consolidate_depth),
           IF wk[w].op = "get" THEN "r" ELSE "a")

\* the arguments of the constructor are drawn; distribuited_lock is the
\* argument, distribuited the field _setup_dist_lock sets
InitLock ==
  /\ cfg \in [write_direct : BOOLEAN, consolidate_depth : {3},
              auto_verify_write : {FALSE}, distribuited_lock : BOOLEAN,
              distribuited : {FALSE}, mode : {"a", "r"}, built : {"no"}]
  /\ fs \in EarlierDisks(cfg.consolidate_depth)
  /\ last = NoOp
  /\ live = {}
  /\ nops = 0
  /\ codec = NoCodec
  /\ wk = NoWorkers

\* the calls on the store object the constructor returned
StoreSet(w, key, value) == cfg.built = "ok" /\ SetCall(w, key, value)
StoreGet(w, key) == cfg.built = "ok" /\ GetCall(w, key)
StoreDel(w, key) == cfg.built = "ok" /\ DelCall(w, key)

NextLock ==
  \/ \E lib_ok \in BOOLEAN, reach \in 0..LockAttempts : Construct(lib_ok, reach)
  \/ \E w \in Workers, k \in LockKeys, v \in Values : StoreSet(w, k, v)
  \/ \E w \in Workers, k \in LockKeys : StoreGet(w, k)
  \/ \E w \in Workers, k \in LockKeys : StoreDel(w, k)
  \/ \E w \in Workers : Acquire(w, FALSE)
  \/ \E w \in Workers : H5Enter(w, Busy(w))
  \/ \E w \in Workers : H5Leave(w)
  \/ \E w \in Workers : Return(w)

SpecLock == InitLock /\ [][NextLock]_vars

(* ------------------------ properties of the lock ----------------------- *)
\* C17: with cross-process locking enabled, a worker that is inside a
\* container for a put, get or delete holds the named lock of that container
\* (in every mode), so no two workers are inside one container together
C17_ContainerUnderLock ==
  cfg.distribuited =>
    /\ \A w \in Workers :
         wk[w].inside # <<>> => wk[w].lock = wk[w].inside
    /\ \A w \in Workers, v \in Workers :
         (w # v /\ wk[w].inside # <<>>) => wk[w].inside # wk[v].inside

\* C18: a store constructed with cross-process locking requested (and
\* write_direct on) is constructed with the lock in use, or is not constructed
C18_NoUnlockedStore ==
  (cfg.built = "ok" /\ cfg.distribuited_lock /\ cfg.write_direct) => cfg.distribuited

(* --------------- specification of concurrent raw-file sets ------------- *)
\* the key of the raw-file writers: a metadata key is written as a raw file
\* whatever write_direct is
RawKeys == {K_meta}

\* the disk is empty or holds one key as a raw file, left by an earlier
\* set(key, value) that 'last' records
InitRaw ==
  /\ cfg = [write_direct |-> TRUE, consolidate_depth |-> 3,
            auto_verify_write |-> FALSE, distribuited |-> FALSE, mode |-> "a"]
  /\ \/ fs = EmptyDisk /\ last = NoOp
     \/ \E k \in RawKeys, v \in Values :
          /\ fs = SetRaw(EmptyDisk, FilePath(k), v).fs
          /\ last = [NoOp EXCEPT !.op = "set", !.key = k, !.val = v]
  /\ live = {}
  /\ nops = 0
  /\ codec = NoCodec
  /\ wk = NoWorkers

NextRaw ==
  \/ \E w \in Workers, k \in RawKeys, v \in Values : SetCall(w, k, v)
  \/ \E w \in Workers : ToFileOpen(w)
  \/ \E w \in Workers : ToFileWrite(w, TRUE)
  \/ \E w \in Workers, perm_fail \in BOOLEAN : Replace(w, perm_fail)
  \/ \E w \in Workers : Return(w)
  \/ \E w \in Workers : Crash(w)

SpecRaw == InitRaw /\ [][NextRaw]_vars

\* the complete payloads the file of a key may hold: the value the earlier
\* set left, and the values of the sets called since
Offered(k) ==
  {v \in Values : last.op = "set" /\ last.key = k /\ last.val = v}
  \cup {c[2] : c \in {d \in UNION {wk[w].called : w \in Workers} : d[1] = k}}

\* C19: under every interleaving of set calls and a crash of a writer at any
\* point, the file at the path of a raw key is absent or holds the complete
\* previous value or the complete value of one of the set calls
C19_RawWriteAtomic ==
  \A k \in RawKeys :
    Exists(fs, FilePath(k)) =>
      (IsFile(fs, FilePath(k)) /\ fs[FilePath(k)].data \in Offered(k))

\* one writer died with its temporary file half written, another wrote the
\* same key to the end
C19_Witness ==
  \E w \in Workers, v \in Workers :
    /\ wk[w].pc = "crashed" /\ IsFile(fs, wk[w].tmp) /\ fs[wk[w].tmp].data = Torn
    /\ wk[v].pc = "done" /\ wk[v].out = "ok" /\ wk[v].key = wk[w].key
    /\ wk[v].val # wk[w].val
    /\ fs[FilePath(wk[v].key)].data = wk[v].val

(* ------- specification of workers that write disjoint containers ------- *)
\* the keys of a worker: worker 1 writes two chunks of container a/0,
\* worker 2 a chunk of container a/1, worker 3 a chunk of container a/2
OwnKeys(w) ==
  IF w = 1 THEN {K_chunk, K_chunk4}
  ELSE IF w = 2 THEN {<< nA, n1, n0, n2 >>}
  ELSE {<< nA, n2, n0, n2 >>}

\* write_direct on, no named lock, no verification
InitWorkers ==
  /\ cfg = [write_direct |-> TRUE, consolidate_depth |-> 3,
            auto_verify_write |-> FALSE, distribuited |-> FALSE, mode |-> "a"]
  /\ fs \in EarlierDisks(cfg.consolidate_depth)
  /\ last = NoOp
  /\ live = {}
  /\ nops = 0
  /\ codec = NoCodec
  /\ wk = NoWorkers

NextWorkers ==
  \/ \E w \in Workers : \E k \in OwnKeys(w), v \in Values : SetCall(w, k, v)
  \/ \E w \in Workers : H5Enter(w, Busy(w))
  \/ \E w \in Workers : H5Leave(w)
  \/ \E w \in Workers : Return(w)

SpecWorkers == InitWorkers /\ [][NextWorkers]_vars

\* C20: with the lock off and every worker writing only the keys of its own
\* container, every set returns normally, and every key a worker has written
\* is read back with the value that worker wrote last, whatever the others
\* are doing
C20_DisjointShardWrites ==
  \A w \in Workers :
    /\ wk[w].pc = "done" =>
         /\ wk[w].out = "ok"
         /\ GetItemResult(fs, cfg, wk[w].key, FALSE, FALSE)
              = [out |-> "ok", res |-> wk[w].val]
    /\ \A k \in DOMAIN wk[w].wrote :
         (wk[w].pc = "idle" \/ wk[w].key # k) =>
           GetItemResult(fs, cfg, k, FALSE, FALSE)
             = [out |-> "ok", res |-> wk[w].wrote[k]]

\* worker 1 has returned from a set while worker 2 is inside its own
\* container, and the key of worker 1 reads back
C20_Witness ==
  /\ wk[1].pc = "done" /\ wk[1].op = "set" /\ wk[1].out = "ok"
  /\ wk[2].pc = "h5in" /\ wk[2].inside # ArchiveOf(wk[1].key, cfg.consolidate_depth)
  /\ GetItemResult(fs, cfg, wk[1].key, FALSE, FALSE).res = wk[1].val

(* ================== consolidate(), step by step ======================= *)
\* One worker runs consolidate(): 'todo' holds the containers that
\* get_unique_archive_locations yielded and that are not migrated yet,
\* 'inside' the container that is open, 'tmp' the source file whose bytes
\* were written last, 'failed' the containers whose open raised.  The
\* containers are taken in any order (the walk order, or dask.compute).
ConsStart(w) ==
  /\ wk[w].pc = "idle"
  /\ nops < MaxRuns
  /\ wk' = Upd(w, [wk[w] EXCEPT !.op = "consolidate", !.pc = "cons",
                                !.todo = get_unique_archive_locations(fs, cfg.consolidate_depth),
                                !.failed = {}])
  /\ nops' = nops + 1
  /\ UNCHANGED << fs, cfg, last, live, codec >>

\* with h5py.File(archive, 'a', ...) as h.  io_fail: the open raises OSError;
\* nothing in consolidate catches it
MigOpen(w, io_fail) ==
  /\ wk[w].pc = "cons"
  /\ \E archive \in wk[w].todo :
       LET me == wk[w]
           bad == Exists(fs, archive) /\ ~IsH5(fs, archive)
       IN IF io_fail \/ bad
          THEN /\ fs' = fs
               /\ wk' = Upd(w, Done([me EXCEPT !.failed = @ \cup {archive}], "OSError", Nil))
          ELSE /\ fs' = IF IsFile(fs, archive) THEN fs
                        ELSE PutNode(fs, archive, H5Node(<<>>))
               /\ wk' = Upd(w, [me EXCEPT !.pc = "mig", !.inside = archive, !.imode = "a"])
  /\ UNCHANGED << cfg, last, live, nops, codec >>

\* the entry of a source file is deleted when it exists and created from the
\* bytes of the file
MigWrite(w) ==
  /\ wk[w].pc = "mig"
  /\ \E p \in FilesUnder(fs, PathNameOf(wk[w].inside)) :
       LET me == wk[w]
           key == _get_archive_key_name(p, cfg.consolidate_depth)[2]
       IN /\ fs' = PutNode(fs, me.inside,
                           H5Node(PutEnt(fs[me.inside].ents, key, _fromfile(fs, p))))
          /\ wk' = Upd(w, [me EXCEPT !.pc = "migrm", !.tmp = p])
  /\ UNCHANGED << cfg, last, live, nops, codec >>

\* os.remove(filepath)
MigRemove(w) ==
  /\ wk[w].pc = "migrm"
  /\ fs' = Remove(fs, wk[w].tmp)
  /\ wk' = Upd(w, [wk[w] EXCEPT !.pc = "mig", !.tmp = <<>>])
  /\ UNCHANGED << cfg, last, live, nops, codec >>

\* the walk of path_name is over: the container is closed
MigClose(w) ==
  /\ wk[w].pc = "mig"
  /\ FilesUnder(fs, PathNameOf(wk[w].inside)) = {}
  /\ wk' = Upd(w, [wk[w] EXCEPT !.pc = "cons", !.todo = @ \ {wk[w].inside},
                                !.inside = <<>>, !.imode = ""])
  /\ UNCHANGED << fs, cfg, last, live, nops, codec >>

\* the clean-up of the empty directories, after the last container
ConsPrune(w) ==
  /\ wk[w].pc = "cons"
  /\ wk[w].todo = {}
  /\ fs' = PruneEmpty(fs)
  /\ wk' = Upd(w, Done(wk[w], "ok", Nil))
  /\ UNCHANGED << cfg, last, live, nops, codec >>

NextMig ==
  \/ ConsStart(1)
  \/ \E io_fail \in BOOLEAN : MigOpen(1, io_fail)
  \/ MigWrite(1)
  \/ MigRemove(1)
  \/ MigClose(1)
  \/ ConsPrune(1)
  \/ Return(1)
  \/ Crash(1)

SpecMig == InitCons /\ [][NextMig]_vars

(* ------------------------- properties, C21 and C25 --------------------- *)
\* C21: when consolidate() has returned, every shard group whose container
\* did not fail is migrated (only the failed groups are left to do) and the
\* empty directories below the array roots are pruned.
C21_FailureDoesNotAbort ==
  (wk[1].op = "consolidate" /\ wk[1].pc = "done") =>
     /\ wk[1].todo \subseteq wk[1].failed
     /\ PruneEmpty(fs) = fs

\* C25: at every step of a consolidation run, and after a failure or a crash
\* at any step, every chunk key of the store is present as a raw file or as
\* the entry of its container.
C25_RawOrEntryAtEveryStep ==
  \A k \in ChunkKeys :
     HasRaw(fs, k) \/ HasShardEntry(fs, k, cfg.consolidate_depth)

(* --------------------- properties, C22, C24 and C28 -------------------- *)
\* C22: a get during which the read of the raw file or the open of the
\* container fails is never answered with KeyError (not-found).
C22_FailureIsNotKeyError ==
  (last.op = "get" /\ last.fail) => last.out # "KeyError"

\* C24: when a raw file exists at the path of the key, a get that returns
\* returns the bytes of that file, never those of the shard entry.
C24_RawFileShadowsEntry ==
  (last.op = "get" /\ last.hadraw /\ last.out = "ok") =>
     last.res = _fromfile(fs, FilePath(last.key))

\* C28: every file that a set creates or modifies lies inside the root
\* directory of the store.
InsideRoot(p) == IsPrefix(StorePath, p) /\ Len(p) > Len(StorePath)
C28_SetStaysInsideRoot ==
  [][(last'.op = "set" /\ nops' = nops + 1) =>
       \A p \in DOMAIN fs' :
          (IsFile(fs', p) /\ (p \notin DOMAIN fs \/ fs[p] # fs'[p])) => InsideRoot(p)]_vars

(* -------------------------------- rmdir -------------------------------- *)
\* rmdir(path): shutil.rmtree of the directory of that name, when there is one
RmDirResult(f, path) ==
  LET dir_path == StorePath \o path
  IN IF IsDir(f, dir_path) THEN RmTree(f, dir_path) ELSE f

RmDir(path) ==
  /\ nops < MaxOps
  /\ fs' = RmDirResult(fs, path)
  /\ last' = [NoOp EXCEPT !.op = "rmdir", !.key = path]
  /\ live' = {k \in live : ~IsPrefix(path, k)}
  /\ nops' = nops + 1
  /\ UNCHANGED << cfg, codec, wk >>

\* the prefixes rmdir is called with
Prefixes_rmdir == { << nA >>, << nA, n0 >>, << nA, n0, n0 >> }

NextRm ==
  \/ \E k \in Keys, v \in Values, io_fail \in BOOLEAN : SetItem(k, v, io_fail)
  \/ \E path \in Prefixes_rmdir : RmDir(path)
  \/ \E k \in Keys : Contains(k)
  \/ KeysOp

SpecRm == Init /\ [][NextRm]_vars

\* C23: after rmdir(prefix) no key that starts with the prefix is contained
\* in the store or yielded by keys(), and get answers every other key as
\* before.
C23_RmdirRemovesSubtree ==
  [][(last'.op = "rmdir" /\ nops' = nops + 1) =>
       \A k \in Keys :
          IF IsPrefix(last'.key, k)
          THEN /\ ~ContainsResult(fs', cfg, k).found
               /\ k \notin KeySet(KeysResult(fs').yield)
          ELSE GetItemResult(fs', cfg, k, FALSE, FALSE)
                 = GetItemResult(fs, cfg, k, FALSE, FALSE)]_vars

(* --------------------------- property, C26 ----------------------------- *)
BelowArrayRoot(f, d) == \E a \in _arrays(f) : IsPrefix(a, d) /\ Len(d) > Len(a)
HasChild(f, d) == \E q \in DOMAIN f : Len(q) = Len(d) + 1 /\ IsPrefix(d, q)

\* C26: after a consolidate that returned, no empty directory is left below
\* an array root, and of the tree the migration left, every file, every
\* directory with a file somewhere below it, every array root and everything
\* outside the array roots is still there, unchanged.
C26_PruneExactlyEmptied ==
  [][(nops' = nops + 1 /\ last'.op = "consolidate" /\ last'.out = "ok") =>
       LET depth == cfg.consolidate_depth
           mid == MigrateAll(fs, get_unique_archive_locations(fs, depth), depth)
       IN /\ \A d \in DOMAIN fs' :
               (IsDir(fs', d) /\ BelowArrayRoot(fs', d)) => HasChild(fs', d)
          /\ \A p \in DOMAIN mid :
               (\/ IsFile(mid, p)
                \/ FilesUnder(mid, p) # {}
                \/ ~BelowArrayRoot(mid, p))
               => (p \in DOMAIN fs' /\ fs'[p] = mid[p])
          /\ DOMAIN fs' \subseteq DOMAIN mid]_vars

\* a run after which a directory is gone whose only child was a directory:
\* rank 4 at depth 3, the coordinates 1/0/0/x are folded into 1/0.h5, the
\* directory 1/0/0 is emptied and 1/0 with it
C26_Witness ==
  /\ nops = 1 /\ last.op = "consolidate" /\ last.out = "ok"
  /\ cfg.consolidate_depth = 3
  /\ \E k \in ChunkKeys :
        /\ RankOf(k) = 4
        /\ HasShardEntry(fs, k, 3)
        /\ ~Exists(fs, SubSeq(FilePath(k), 1, Len(FilePath(k)) - 1))
        /\ ~Exists(fs, SubSeq(FilePath(k), 1, Len(FilePath(k)) - 2))
        /\ Exists(fs, SubSeq(FilePath(k), 1, Len(FilePath(k)) - 3))

(* --------------------------- property, C27 ----------------------------- *)
\* C27: for every key that get answers before a consolidate, get after the
\* consolidate returns the same bytes.
C27_ConsolidatePreservesValues ==
  [][(nops' = nops + 1 /\ last'.op = "consolidate") =>
       \A k \in live :
          GetItemResult(fs, cfg, k, FALSE, FALSE).out = "ok" =>
            GetItemResult(fs', cfg, k, FALSE, FALSE)
              = GetItemResult(fs, cfg, k, FALSE, FALSE)]_vars

(* -------------------- __getstate__ and __setstate__ -------------------- *)
\* the value of an attribute the object does not have: reading it raises
\* AttributeError
NoAttr == "no attribute"

\* __getstate__: the tuple of the attributes that are pickled (of those the
\* model holds: _write_direct and _consolidate_depth; mode is not among them)
__getstate__(c) == << c.write_direct, c.consolidate_depth >>

\* __setstate__: the attributes of the tuple are set, mode is not
__setstate__(state) ==
  [write_direct |-> state[1], consolidate_depth |-> state[2], mode |-> NoAttr]

\* __getitem__ of a store object with the attribute mode: the test
\* 'self._write_direct and self.mode != "r"' stands inside the try of the
\* container read, so the AttributeError of a missing mode is passed over
\* like a failed read
GetItemOf(f, c, key) ==
  GetItemResult(f, c, key, FALSE, c.write_direct /\ c.mode = NoAttr)

GetItemMode(key) ==
  /\ last.op \in MutatingOps
  /\ LET r == GetItemOf(fs, cfg, key)
     IN last' = [NoOp EXCEPT !.op = "get", !.key = key, !.out = r.out, !.res = r.res,
                   !.hadraw = HasRaw(fs, key),
                   !.hadent = HasShardEntry(fs, key, cfg.consolidate_depth),
                   !.hadarchive = IsFile(fs, ArchiveOf(key, cfg.consolidate_depth))]
  /\ UNCHANGED << fs, cfg, live, nops, codec, wk >>

\* the store object is replaced by the one pickle rebuilds from its state
Rebuild ==
  /\ nops < MaxOps
  /\ cfg.mode # NoAttr
  /\ cfg' = __setstate__(__getstate__(cfg))
  /\ last' = [NoOp EXCEPT !.op = "setstate"]
  /\ nops' = nops + 1
  /\ UNCHANGED << fs, live, codec, wk >>

InitPickle ==
  /\ cfg \in [write_direct : BOOLEAN, consolidate_depth : Depths, mode : {"a", "r"}]
  /\ fs \in EarlierDisks(cfg.consolidate_depth)
  /\ last = NoOp
  /\ live = {k \in EarlierKeys : HasShardEntry(fs, k, cfg.consolidate_depth)}
  /\ nops = 0
  /\ codec = NoCodec
  /\ wk = NoWorkers

NextPickle ==
  \/ Rebuild
  \/ \E k \in Keys, v \in Values, io_fail \in BOOLEAN : SetItem(k, v, io_fail)
  \/ \E k \in Keys : GetItemMode(k)
  \/ \E k \in Keys : Contains(k)

SpecPickle == InitPickle /\ [][NextPickle]_vars

\* C29: the store rebuilt by __setstate__ from the __getstate__ of a store
\* answers get, contains and set for every key as that store does, over the
\* same directory.
C29_RebuiltStoreBehavesAlike ==
  [][(last'.op = "setstate" /\ nops' = nops + 1) =>
       \A k \in Keys :
          /\ GetItemOf(fs, cfg', k) = GetItemOf(fs, cfg, k)
          /\ ContainsResult(fs, cfg', k) = ContainsResult(fs, cfg, k)
          /\ \A v \in Values :
               SetItemResult(fs, cfg', k, v, FALSE) = SetItemResult(fs, cfg, k, v, FALSE)]_vars

(* --------------------------- property, C30 ----------------------------- *)
\* C30: while raw-file sets are in flight, and after a writer crashed, keys()
\* yields only keys that some caller set (and len() counts only those).
C30_KeysOnlySetKeys ==
  LET r == KeysResult(fs)
      set_keys == {k \in RawKeys : Offered(k) # {}}
  IN /\ KeySet(r.yield) \subseteq set_keys
     /\ LenOf(r.yield) <= Cardinality(set_keys)

====
